---- MODULE Spec2Model ----
(***************************************************************************)
(* MacroManager (src/src/index.ts): a registry binding macro ids to        *)
(* keyboard chords, and the key-down handler that dispatches matching       *)
(* enabled macros.                                                          *)
(*                                                                          *)
(* JavaScript values are modelled as follows.  A Map is the sequence of its *)
(* entries in insertion order.  An optional property that is absent is a    *)
(* field missing from the record's DOMAIN.  Option values are the strings   *)
(* "true", "false" and "undefined".  A reference to a record object is a    *)
(* Ref: while the object is the value stored in the Map under key k it is   *)
(* named by k; once it has left the Map the reference carries the object's  *)
(* fields itself.                                                           *)
(***************************************************************************)
EXTENDS Integers, Sequences, FiniteSets, TLC

VARIABLES
    macros,        \* this.macros: Map<string, RegisteredMacro>, in insertion order
    options,       \* this.options
    ctorOptions,   \* history: the options object the constructor was given
    isListening,   \* this.isListening
    docListeners,  \* the document's "keydown" listener list
    last,          \* the most recent completed call: operation, id, result, DOM call made
    pc,            \* "idle", or "inAction" while handleKeyPress is inside macro.action()
    ev,            \* the event handleKeyPress is (or was last) invoked with
    iter,          \* the Map iterator of the for-of loop: entries already visited
    cur,           \* the loop variable `macro`
    log,           \* calls handleKeyPress made on the event, the actions and console.error
    mutated,       \* an action of the running dispatch has called the registry
    calls,         \* how many calls the running action has made on the registry
    before,        \* history: the host's last unregister, enable, disable, toggle or stop
    snap           \* the array most recently returned by getAll(), held by the caller

vars == <<macros, options, ctorOptions, isListening, docListeners, last, pc, ev, iter, cur, log,
          mutated, calls, before, snap>>

-----------------------------------------------------------------------------
(* Input domains *)

Undefined == "undefined"

Ids == {"save", "refresh"}

Actions == {"f", "g"}

Descriptions == {Undefined, "d"}

\* Chords: an absent modifier is a missing field.
ComboCtrlS == [key |-> "s", ctrl |-> TRUE]

ComboCtrlUpperS == [key |-> "S", ctrl |-> TRUE, shift |-> FALSE]

ComboAltMetaX == [key |-> "x", alt |-> TRUE, meta |-> TRUE]

KeyCombos == {ComboCtrlS, ComboCtrlUpperS, ComboAltMetaX}

EventKeys == {"s", "S", "x"}

\* The sets of modifiers held down in the events of the model.
ModifierSets ==
    { {}, {"ctrl"}, {"ctrl", "alt"}, {"ctrl", "shift"}, {"ctrl", "meta"}, {"alt", "meta"} }

\* A KeyboardEvent always carries the four modifier flags.
Event(key, held, tagName) ==
    [ key |-> key, ctrlKey |-> "ctrl" \in held, altKey |-> "alt" \in held,
      shiftKey |-> "shift" \in held, metaKey |-> "meta" \in held,
      target |-> [tagName |-> tagName] ]

\* Every key and modifier set on a non-form element, and a chord typed in form fields.
Events ==
    {Event(k, h, "DIV") : k \in EventKeys, h \in ModifierSets}
    \cup {Event("s", {"ctrl"}, t) : t \in {"INPUT", "textarea", "Select"}}

\* The events of the registry specification.
FewEvents == {Event("S", {"ctrl"}, "DIV"), Event("s", {"ctrl"}, "INPUT"), Event("x", {}, "DIV")}

\* The options objects given to the constructor (a field may be omitted, or
\* present with the value undefined).
OptionInputs ==
    { <<>>,
      [preventDefault |-> "false"],
      [stopPropagation |-> "true"],
      [preventDefault |-> Undefined, debug |-> "true"],
      [preventDefault |-> "false", stopPropagation |-> "true", debug |-> Undefined] }

\* The longest log one dispatch may write.
MaxLog == 8

\* The most calls one run of an action makes on the registry.
MaxActionCalls == 2

-----------------------------------------------------------------------------
(* JavaScript helpers *)

\* String.prototype.toLowerCase on the strings of the model.
toLowerCase(s) ==
    CASE s = "S" -> "s"
      [] s = "X" -> "x"
      [] s = "DIV" -> "div"
      [] s = "INPUT" -> "input"
      [] s = "Select" -> "select"
      [] s = "SELECT" -> "select"
      [] s = "TEXTAREA" -> "textarea"
      [] OTHER -> s

\* !!obj.f for an optional boolean property f.
Truthy(obj, f) == f \in DOMAIN obj /\ obj[f] = TRUE

\* Truthiness of an option value.
OptionSet(name) == options[name] = "true"

\* { ...defaults, ...options }: a field present in the argument overrides the
\* default, also when its value is undefined.
Spread(defaults, given) ==
    [f \in DOMAIN defaults \cup DOMAIN given |->
        IF f \in DOMAIN given THEN given[f] ELSE defaults[f]]

\* Object.assign(target, source)
ObjectAssign(target, source) ==
    [f \in DOMAIN target \cup DOMAIN source |->
        IF f \in DOMAIN source THEN source[f] ELSE target[f]]

-----------------------------------------------------------------------------
(* The Map *)

Keys(m) == {m[i].key : i \in DOMAIN m}

Has(id) == id \in Keys(macros)

\* The position of key id in the entry list.
IndexOf(m, id) == CHOOSE i \in DOMAIN m : m[i].key = id

\* this.macros.get(id), for a key that is present.
Get(id) == macros[IndexOf(macros, id)].value

\* The entry list with position p removed.
RemoveAt(m, p) == [i \in 1..(Len(m) - 1) |-> IF i < p THEN m[i] ELSE m[i + 1]]

\* The entry list with the value at position p replaced.
SetValue(m, p, v) == [m EXCEPT ![p] = [key |-> m[p].key, value |-> v]]

(* References *)

NoRef == [live |-> FALSE, none |-> TRUE]

LiveRef(id) == [live |-> TRUE, key |-> id]

\* What a reference held outside the Map sees once the entries in `gone`
\* have left the Map.
Detach(ref, gone) ==
    IF ref.live /\ ref.key \in gone
    THEN [live |-> FALSE, rec |-> Get(ref.key)]
    ELSE ref

DetachAll(refs, gone) == [i \in DOMAIN refs |-> Detach(refs[i], gone)]

-----------------------------------------------------------------------------
(* Construction *)

DefaultOptions ==
    [preventDefault |-> "true", stopPropagation |-> "false", debug |-> "false"]

listenerFn == "handleKeyPress.bind(this)"

\* A keydown listener of the page that is not this registry's.
otherListener == "otherListener"

NoEvent == [none |-> TRUE]

NoBefore == [none |-> TRUE]

NoCall == [op |-> "new", id |-> Undefined, ret |-> "void", host |-> "none"]

\* new MacroManager(given)
Constructed(given) ==
    /\ macros = <<>>
    /\ options = Spread(DefaultOptions, given)
    /\ ctorOptions = given
    /\ isListening = FALSE
    /\ docListeners = <<otherListener>>
    /\ last = NoCall
    /\ pc = "idle"
    /\ ev = NoEvent
    /\ iter = 0
    /\ cur = NoRef
    /\ log = <<>>
    /\ mutated = FALSE
    /\ calls = 0
    /\ before = NoBefore
    /\ snap = <<>>

\* new MacroManager()
Init == Constructed(<<>>)

\* new MacroManager(o), for the options objects of the model
InitOptions == \E o \in OptionInputs : Constructed(o)

-----------------------------------------------------------------------------
(* The host: the document's listener list for "keydown" *)

Range(q) == {q[i] : i \in DOMAIN q}

\* EventTarget.addEventListener: a callback already in the list is not added again.
addEventListener(list, fn) == IF fn \in Range(list) THEN list ELSE Append(list, fn)

\* EventTarget.removeEventListener: removes that callback, if present.
removeEventListener(list, fn) == SelectSeq(list, LAMBDA x : x # fn)

\* How many times this registry's handler is attached.
Attached == Cardinality({i \in DOMAIN docListeners : docListeners[i] = listenerFn})

Call(op, id, ret, host) == [op |-> op, id |-> id, ret |-> ret, host |-> host]

-----------------------------------------------------------------------------
(* The registry's methods.  Each states its effect on the registry and on    *)
(* the references held outside the Map; who calls it is stated by the        *)
(* actions below.                                                            *)

\* start() without its guard.
start_NoGuard ==
    /\ docListeners' = addEventListener(docListeners, listenerFn)
    /\ isListening' = TRUE
    /\ last' = Call("start", Undefined, "void", "addEventListener")
    /\ UNCHANGED <<macros, iter, cur, snap>>

start ==
    /\ IF ~isListening
       THEN /\ docListeners' = addEventListener(docListeners, listenerFn)
            /\ isListening' = TRUE
            /\ last' = Call("start", Undefined, "void", "addEventListener")
       ELSE /\ UNCHANGED <<docListeners, isListening>>
            /\ last' = Call("start", Undefined, "void", "none")
    /\ UNCHANGED <<macros, iter, cur, snap>>

\* stop() detaching a newly bound function instead of the stored one.
stop_FreshClosure ==
    /\ IF isListening
       THEN /\ docListeners' = removeEventListener(docListeners, "handleKeyPress.bind(this) #2")
            /\ isListening' = FALSE
            /\ last' = Call("stop", Undefined, "void", "removeEventListener")
       ELSE /\ UNCHANGED <<docListeners, isListening>>
            /\ last' = Call("stop", Undefined, "void", "none")
    /\ UNCHANGED <<macros, iter, cur, snap>>

stop ==
    /\ IF isListening
       THEN /\ docListeners' = removeEventListener(docListeners, listenerFn)
            /\ isListening' = FALSE
            /\ last' = Call("stop", Undefined, "void", "removeEventListener")
       ELSE /\ UNCHANGED <<docListeners, isListening>>
            /\ last' = Call("stop", Undefined, "void", "none")
    /\ UNCHANGED <<macros, iter, cur, snap>>

\* A record created with the enabled flag cleared.
NewMacro_Disabled(id, keyCombo, action, description) ==
    [id |-> id, keyCombo |-> keyCombo, action |-> action,
     description |-> description, enabled |-> FALSE]

\* The record register() stores.
NewMacro(id, keyCombo, action, description) ==
    [id |-> id, keyCombo |-> keyCombo, action |-> action,
     description |-> description, enabled |-> TRUE]

\* register() without the check for an existing id: Map.set replaces the value.
register_Overwrite(id, keyCombo, action, description) ==
    /\ macros' = IF Has(id)
                 THEN SetValue(macros, IndexOf(macros, id),
                               NewMacro(id, keyCombo, action, description))
                 ELSE Append(macros, [key |-> id,
                                      value |-> NewMacro(id, keyCombo, action, description)])
    /\ last' = Call("register", id, id, "none")
    /\ UNCHANGED <<isListening, docListeners, iter, cur, snap>>

register(id, keyCombo, action, description) ==
    /\ IF Has(id)
       THEN /\ macros' = macros
            /\ last' = Call("register", id, "DuplicateId", "none")
       ELSE /\ macros' = Append(macros,
                   [key |-> id, value |-> NewMacro(id, keyCombo, action, description)])
            /\ last' = Call("register", id, id, "none")
    /\ UNCHANGED <<isListening, docListeners, iter, cur, snap>>

\* unregister() reporting the record without deleting it.
unregister_ReportsOnly(id) ==
    /\ last' = Call("unregister", id, IF Has(id) THEN "true" ELSE "false", "none")
    /\ UNCHANGED <<macros, iter, cur, snap, isListening, docListeners>>

unregister(id) ==
    /\ IF Has(id)
       THEN LET p == IndexOf(macros, id) IN
            /\ macros' = RemoveAt(macros, p)
            /\ iter' = IF p <= iter THEN iter - 1 ELSE iter
            /\ cur' = Detach(cur, {id})
            /\ snap' = DetachAll(snap, {id})
            /\ last' = Call("unregister", id, "true", "none")
       ELSE /\ UNCHANGED <<macros, iter, cur, snap>>
            /\ last' = Call("unregister", id, "false", "none")
    /\ UNCHANGED <<isListening, docListeners>>

\* macro.enabled = v on the record stored under id, for enable, disable and toggle.
SetEnabled(op, id, v) ==
    /\ IF Has(id)
       THEN /\ macros' = SetValue(macros, IndexOf(macros, id), [Get(id) EXCEPT !.enabled = v])
            /\ last' = Call(op, id, "true", "none")
       ELSE /\ macros' = macros
            /\ last' = Call(op, id, "false", "none")
    /\ UNCHANGED <<isListening, docListeners, iter, cur, snap>>

\* enable() flipping the flag.
enable_Flips(id) == SetEnabled("enable", id, IF Has(id) THEN ~Get(id).enabled ELSE TRUE)

enable(id) == SetEnabled("enable", id, TRUE)

disable(id) == SetEnabled("disable", id, FALSE)

\* toggle() setting the flag instead of flipping it.
toggle_AlwaysEnables(id) == SetEnabled("toggle", id, TRUE)

toggle(id) == SetEnabled("toggle", id, IF Has(id) THEN ~Get(id).enabled ELSE FALSE)

\* update() creating the record when the id is missing.
update_Upsert(id, updates) ==
    /\ macros' = IF Has(id)
                 THEN SetValue(macros, IndexOf(macros, id), ObjectAssign(Get(id), updates))
                 ELSE Append(macros, [key |-> id,
                                      value |-> ObjectAssign(NewMacro(id, ComboCtrlS, "f", Undefined),
                                                             updates)])
    /\ last' = Call("update", id, "true", "none")
    /\ UNCHANGED <<isListening, docListeners, iter, cur, snap>>

\* update() deleting the record and setting it again.
update_Reinserts(id, updates) ==
    /\ IF Has(id)
       THEN /\ macros' = Append(RemoveAt(macros, IndexOf(macros, id)),
                                [key |-> id, value |-> ObjectAssign(Get(id), updates)])
            /\ last' = Call("update", id, "true", "none")
       ELSE /\ macros' = macros
            /\ last' = Call("update", id, "false", "none")
    /\ UNCHANGED <<isListening, docListeners, iter, cur, snap>>

update(id, updates) ==
    /\ IF Has(id)
       THEN /\ macros' = SetValue(macros, IndexOf(macros, id), ObjectAssign(Get(id), updates))
            /\ last' = Call("update", id, "true", "none")
       ELSE /\ macros' = macros
            /\ last' = Call("update", id, "false", "none")
    /\ UNCHANGED <<isListening, docListeners, iter, cur, snap>>

\* Array.from(this.macros.values()): a new array of the same record objects.
Values == [i \in DOMAIN macros |-> LiveRef(macros[i].key)]

getAll ==
    /\ snap' = Values
    /\ last' = Call("getAll", Undefined, "array", "none")
    /\ UNCHANGED <<macros, isListening, docListeners, iter, cur>>

\* clear() that also detaches the handler.
clear_AlsoStops ==
    /\ macros' = <<>>
    /\ iter' = 0
    /\ cur' = Detach(cur, Keys(macros))
    /\ snap' = DetachAll(snap, Keys(macros))
    /\ last' = Call("clear", Undefined, "void", "none")
    /\ docListeners' = removeEventListener(docListeners, listenerFn)
    /\ isListening' = FALSE

clear ==
    /\ macros' = <<>>
    /\ iter' = 0
    /\ cur' = Detach(cur, Keys(macros))
    /\ snap' = DetachAll(snap, Keys(macros))
    /\ last' = Call("clear", Undefined, "void", "none")
    /\ UNCHANGED <<isListening, docListeners>>

-----------------------------------------------------------------------------
(* handleKeyPress *)

\* The object a reference denotes.
Deref(ref) == IF ref.live THEN Get(ref.key) ELSE ref.rec

\* The tag name compared without lower-casing it.
IsTextEntry_CaseSensitive(event) ==
    event.target.tagName \in {"input", "textarea", "select"}

\* ['input', 'textarea', 'select'].includes(tagName)
IsTextEntry(event) ==
    toLowerCase(event.target.tagName) \in {"input", "textarea", "select"}

\* A chord's modifiers required to be held, other held modifiers ignored.
matchesCombo_HeldOnly(event, combo) ==
    /\ toLowerCase(event.key) = toLowerCase(combo.key)
    /\ Truthy(combo, "ctrl") => event.ctrlKey
    /\ Truthy(combo, "alt") => event.altKey
    /\ Truthy(combo, "shift") => event.shiftKey
    /\ Truthy(combo, "meta") => event.metaKey

matchesCombo(event, combo) ==
    LET key == toLowerCase(combo.key)
        eventKey == toLowerCase(event.key)
    IN  /\ eventKey = key
        /\ event.ctrlKey = Truthy(combo, "ctrl")
        /\ event.altKey = Truthy(combo, "alt")
        /\ event.shiftKey = Truthy(combo, "shift")
        /\ event.metaKey = Truthy(combo, "meta")

\* The loop body entered for every record whose chord matches, enabled or not.
Fires_IgnoresEnabled(macro, event) == matchesCombo(event, macro.keyCombo)

\* The condition of the loop body.
Fires(macro, event) == macro.enabled /\ matchesCombo(event, macro.keyCombo)

\* The loop left after the first macro that fires.
NextMatch_FirstOnly(event, from) ==
    LET hits == {i \in DOMAIN macros : i > from /\ Fires(macros[i].value, event)}
    IN  IF hits = {} \/ from > 0 THEN 0 ELSE CHOOSE i \in hits : \A j \in hits : i <= j

\* The first entry after iterator position `from` whose body runs, or 0.
NextMatch(event, from) ==
    LET hits == {i \in DOMAIN macros : i > from /\ Fires(macros[i].value, event)}
    IN  IF hits = {} THEN 0 ELSE CHOOSE i \in hits : \A j \in hits : i <= j

\* Both calls made whatever the options say.
Suppress_Always == <<[call |-> "preventDefault"], [call |-> "stopPropagation"]>>

\* event.preventDefault() and event.stopPropagation(), as configured.
Suppress ==
    (IF OptionSet("preventDefault") THEN <<[call |-> "preventDefault"]>> ELSE <<>>)
    \o (IF OptionSet("stopPropagation") THEN <<[call |-> "stopPropagation"]>> ELSE <<>>)

Returned(ret) ==
    /\ pc' = "idle"
    /\ calls' = 0
    /\ iter' = 0
    /\ cur' = NoRef
    /\ last' = Call("handleKeyPress", Undefined, ret, "none")

\* The loop body calling the action first and suppressing afterwards.
Loop_ActionFirst(event, from, lg) ==
    LET i == NextMatch(event, from) IN
    IF i = 0
    THEN /\ Returned("void")
         /\ log' = lg
    ELSE /\ Len(lg) + 4 <= MaxLog
         /\ pc' = "inAction"
         /\ calls' = 0
         /\ iter' = i
         /\ cur' = LiveRef(macros[i].key)
         /\ log' = lg \o <<[call |-> "action", key |-> macros[i].key,
                            fn |-> macros[i].value.action]>>
                      \o Suppress
         /\ last' = Call("handleKeyPress", Undefined, "running", "none")

\* The for-of loop from iterator position `from` up to the next call of an
\* action, or to its end.
Loop(event, from, lg) ==
    LET i == NextMatch(event, from) IN
    IF i = 0
    THEN /\ Returned("void")
         /\ log' = lg
    ELSE /\ Len(lg) + 4 <= MaxLog
         /\ pc' = "inAction"
         /\ calls' = 0
         /\ iter' = i
         /\ cur' = LiveRef(macros[i].key)
         /\ log' = lg \o Suppress
                      \o <<[call |-> "action", key |-> macros[i].key,
                            fn |-> macros[i].value.action]>>
         /\ last' = Call("handleKeyPress", Undefined, "running", "none")

\* The host delivers a keydown event to the attached handler.
KeyDown(event) ==
    /\ pc = "idle"
    /\ listenerFn \in Range(docListeners)
    /\ ev' = event
    /\ mutated' = FALSE
    /\ before' = before
    /\ IF IsTextEntry(event)
       THEN /\ Returned("void")
            /\ log' = <<>>
       ELSE Loop(event, 0, <<>>)
    /\ UNCHANGED <<macros, options, ctorOptions, isListening, docListeners, snap>>

\* The action called outside any try block: what it throws leaves handleKeyPress.
ActionReturn_NoTry(thrown) ==
    /\ pc = "inAction"
    /\ IF thrown
       THEN /\ Returned("throws")
            /\ log' = log
       ELSE Loop(ev, iter, log)
    /\ UNCHANGED <<macros, options, ctorOptions, isListening, docListeners, ev, mutated, before, snap>>

\* The host raises a keydown event on the document while the handler is not in
\* its listener list: no code of the registry runs.
KeyDownUnheard(event) ==
    /\ pc = "idle"
    /\ listenerFn \notin Range(docListeners)
    /\ ev' = event
    /\ log' = <<>>
    /\ mutated' = FALSE
    /\ last' = Call("keydown", Undefined, "void", "none")
    /\ UNCHANGED <<macros, options, ctorOptions, isListening, docListeners, pc, iter, cur, calls,
                   before, snap>>

\* The loop left when an action has stopped the registry.
ActionReturn_EndsWhenStopped(thrown) ==
    /\ pc = "inAction"
    /\ IF ~isListening
       THEN /\ Returned("void")
            /\ log' = log
       ELSE Loop(ev, iter,
                 IF thrown
                 THEN Append(log, [call |-> "console.error", id |-> Deref(cur).id])
                 ELSE log)
    /\ UNCHANGED <<macros, options, ctorOptions, isListening, docListeners, ev, mutated, before, snap>>

\* macro.action() returns or throws inside the try block, and the loop goes on.
ActionReturn(thrown) ==
    /\ pc = "inAction"
    /\ Loop(ev, iter,
            IF thrown
            THEN Append(log, [call |-> "console.error", id |-> Deref(cur).id])
            ELSE log)
    /\ UNCHANGED <<macros, options, ctorOptions, isListening, docListeners, ev, mutated, before, snap>>

-----------------------------------------------------------------------------
(* Calls made by the host application, between events *)

\* A call from outside any dispatch: the record of the last dispatch is dropped.
HostCallOf(kept) ==
    /\ pc = "idle"
    /\ pc' = "idle"
    /\ ev' = NoEvent
    /\ log' = <<>>
    /\ mutated' = FALSE
    /\ calls' = 0
    /\ options' = options
    /\ ctorOptions' = ctorOptions
    /\ before' = kept

HostCall == HostCallOf(NoBefore)

\* What `before` keeps of a call op(id) when history is kept: the records and
\* the listening flag the call found, and whether the call before it was op(id) too.
Before(history, op, id) ==
    IF history
    THEN [op |-> op, id |-> id, macros |-> macros, listening |-> isListening,
          twice |-> last.op = op /\ last.id = id]
    ELSE NoBefore

\* The partial records update() is given: any one field, none, several, or a
\* whole record obtained from get().
Updates(combos, actions, descriptions) ==
    {<<>>}
    \cup {[keyCombo |-> k] : k \in combos}
    \cup {[action |-> a] : a \in actions}
    \cup {[description |-> d] : d \in descriptions}
    \cup {[enabled |-> b] : b \in BOOLEAN}
    \cup {[keyCombo |-> k, enabled |-> FALSE] : k \in combos \cap {ComboAltMetaX}}
    \cup {macros[i].value : i \in DOMAIN macros}

Start == HostCall /\ start

Stop(history) == HostCallOf(Before(history, "stop", Undefined)) /\ stop

Register(id, keyCombo, action, description) ==
    HostCall /\ register(id, keyCombo, action, description)

Unregister(id, history) == HostCallOf(Before(history, "unregister", id)) /\ unregister(id)

Enable(id, history) == HostCallOf(Before(history, "enable", id)) /\ enable(id)

Disable(id, history) == HostCallOf(Before(history, "disable", id)) /\ disable(id)

Toggle(id, history) == HostCallOf(Before(history, "toggle", id)) /\ toggle(id)

Update(id, updates) == HostCall /\ update(id, updates)

Clear == HostCall /\ clear

GetAll == HostCall /\ getAll

\* The caller assigns a field of the i-th record of the array it was returned
\* (RegisteredMacro's fields are not readonly).
CallerWrite(i, field, value) ==
    /\ HostCall
    /\ i \in DOMAIN snap
    /\ IF snap[i].live
       THEN /\ macros' = SetValue(macros, IndexOf(macros, snap[i].key),
                                  [Get(snap[i].key) EXCEPT ![field] = value])
            /\ snap' = snap
       ELSE /\ snap' = [snap EXCEPT ![i].rec[field] = value]
            /\ macros' = macros
    /\ last' = Call("callerWrite", Deref(snap[i]).id, "void", "none")
    /\ UNCHANGED <<isListening, docListeners, iter, cur>>

\* The caller removes the first element of the array it was returned.
CallerShift ==
    /\ HostCall
    /\ snap # <<>>
    /\ snap' = Tail(snap)
    /\ last' = Call("callerShift", Undefined, "void", "none")
    /\ UNCHANGED <<macros, isListening, docListeners, iter, cur>>

-----------------------------------------------------------------------------
(* Calls made by a macro's action, while handleKeyPress is in its loop *)

\* The action that is running calls a method that writes the records.
ActionCall ==
    /\ pc = "inAction"
    /\ calls < MaxActionCalls
    /\ calls' = calls + 1
    /\ mutated' = TRUE
    /\ UNCHANGED <<pc, ev, log, options, ctorOptions, before>>

\* The action that is running calls start() or stop().
ActionCallListening ==
    /\ pc = "inAction"
    /\ calls < MaxActionCalls
    /\ calls' = calls + 1
    /\ UNCHANGED <<pc, ev, log, options, ctorOptions, mutated, before>>

ActionRegisters(id, keyCombo, action, description) ==
    ActionCall /\ register(id, keyCombo, action, description)

ActionUnregisters(id) == ActionCall /\ unregister(id)

ActionEnables(id) == ActionCall /\ enable(id)

ActionDisables(id) == ActionCall /\ disable(id)

ActionToggles(id) == ActionCall /\ toggle(id)

ActionUpdates(id, updates) == ActionCall /\ update(id, updates)

ActionClears == ActionCall /\ clear

ActionStarts == ActionCallListening /\ start

ActionStops == ActionCallListening /\ stop

-----------------------------------------------------------------------------
(* Specifications *)

\* Every call that reads or writes the records, with arguments from the given
\* sets, keeping the history variable `before` or not.
RegistryCalls(combos, actions, descriptions, history) ==
    \/ \E id \in Ids, k \in combos, a \in actions, d \in descriptions :
            Register(id, k, a, d)
    \/ \E id \in Ids : Unregister(id, history)
    \/ \E id \in Ids : Enable(id, history)
    \/ \E id \in Ids : Disable(id, history)
    \/ \E id \in Ids : Toggle(id, history)
    \/ \E id \in Ids, u \in Updates(combos, actions, descriptions) : Update(id, u)
    \/ Clear

\* start(), stop(), and the events the host raises.
ListeningAndEvents(events, history) ==
    \/ Start
    \/ Stop(history)
    \/ \E e \in events : KeyDown(e)
    \/ \E e \in events : KeyDownUnheard(e)
    \/ \E thrown \in BOOLEAN : ActionReturn(thrown)

\* The registry: every field of a record varies, under a few events.
Next ==
    \/ RegistryCalls({ComboCtrlS, ComboAltMetaX}, Actions, Descriptions, FALSE)
    \/ ListeningAndEvents(FewEvents, FALSE)

Spec == Init /\ [][Next]_vars

\* Dispatch: every chord and every event.
NextDispatch ==
    \/ RegistryCalls(KeyCombos, {"f"}, {Undefined}, FALSE)
    \/ ListeningAndEvents(Events, FALSE)

SpecDispatch == Init /\ [][NextDispatch]_vars

\* Actions that call the registry back during dispatch.
NextReentrant ==
    \/ \E id \in Ids, k \in {ComboCtrlS, ComboAltMetaX} : Register(id, k, "f", Undefined)
    \/ \E id \in Ids : Disable(id, FALSE)
    \/ ListeningAndEvents({Event("S", {"ctrl"}, "DIV"), Event("x", {"alt", "meta"}, "DIV")}, FALSE)
    \/ \E id \in Ids : ActionRegisters(id, ComboCtrlS, "g", Undefined)
    \/ \E id \in Ids : ActionUnregisters(id)
    \/ \E id \in Ids : ActionEnables(id)
    \/ \E id \in Ids : ActionDisables(id)
    \/ \E id \in Ids : ActionToggles(id)
    \/ \E id \in Ids : ActionUpdates(id, [keyCombo |-> ComboAltMetaX])
    \/ ActionClears
    \/ ActionStarts
    \/ ActionStops

SpecReentrant == Init /\ [][NextReentrant]_vars

\* The caller of getAll() keeps the array and writes to it and to its records.
NextView ==
    \/ RegistryCalls({ComboCtrlS}, {"f"}, {Undefined}, FALSE)
    \/ GetAll
    \/ \E i \in 1..Cardinality(Ids) :
          \/ \E b \in BOOLEAN : CallerWrite(i, "enabled", b)
          \/ CallerWrite(i, "keyCombo", ComboAltMetaX)
    \/ CallerShift

SpecView == Init /\ [][NextView]_vars

\* The registry with the history of the host's last call kept across events.
NextHistory ==
    \/ RegistryCalls({ComboCtrlS, ComboAltMetaX}, {"f"}, {Undefined}, TRUE)
    \/ ListeningAndEvents(FewEvents, TRUE)

SpecHistory == Init /\ [][NextHistory]_vars

\* Registries constructed with each of the option objects.
NextOptions ==
    \/ RegistryCalls({ComboCtrlS, ComboAltMetaX}, {"f"}, {Undefined}, FALSE)
    \/ ListeningAndEvents(FewEvents, FALSE)

SpecOptions == InitOptions /\ [][NextOptions]_vars

\* getAll() and dispatch over the same records, which all have one chord.
NextOrder ==
    \/ RegistryCalls({ComboCtrlS}, {"f"}, {Undefined}, FALSE)
    \/ GetAll
    \/ ListeningAndEvents({Event("S", {"ctrl"}, "DIV")}, FALSE)

SpecOrder == Init /\ [][NextOrder]_vars

-----------------------------------------------------------------------------
(* Vocabulary of the properties *)

\* handleKeyPress has returned and nothing was called since.
DispatchDone == pc = "idle" /\ last.op = "handleKeyPress" /\ last.ret # "running"

\* How often the action of the record stored under key k was called for the event.
Invocations(k) ==
    Cardinality({n \in DOMAIN log : log[n].call = "action" /\ log[n].key = k})

\* The entries the log holds for a call.
Logged(call) == {n \in DOMAIN log : log[n].call = call}

\* The ids under which records are stored, in the order the Map iterates them.
KeyOrder == [i \in DOMAIN macros |-> macros[i].key]

\* The records the caller sees through the array getAll() returned.
SnapView == [i \in DOMAIN snap |-> Deref(snap[i])]

\* A chord's modifier flag, absent counting as false.
ChordFlag(combo, f) == IF f \in DOMAIN combo THEN combo[f] ELSE FALSE

\* Two key names that differ at most in case.
SameKey(a, b) ==
    \/ a = b
    \/ {a, b} = {"s", "S"}
    \/ {a, b} = {"x", "X"}

\* The chord of the specification's matching rule.
ChordMatches(event, combo) ==
    /\ SameKey(event.key, combo.key)
    /\ event.ctrlKey = ChordFlag(combo, "ctrl")
    /\ event.altKey = ChordFlag(combo, "alt")
    /\ event.shiftKey = ChordFlag(combo, "shift")
    /\ event.metaKey = ChordFlag(combo, "meta")

\* The element kinds of text entry, in any case.
TextEntryTags ==
    {"input", "INPUT", "Input", "textarea", "TEXTAREA", "TextArea",
     "select", "SELECT", "Select"}

\* The entries that the specification says fire for the event.
ShouldFire(event) ==
    {i \in DOMAIN macros :
        macros[i].value.enabled /\ ChordMatches(event, macros[i].value.keyCombo)}

-----------------------------------------------------------------------------
(* C1..C10 *)

\* C1: for an event delivered to the attached handler whose target is no
\* text-entry element, a registered record's action is invoked if and only if
\* the record is enabled, the keys are equal ignoring case, and each of the
\* four modifiers of the event equals the chord's flag (absent = false).
C1_FiresIffEnabledAndExactChord ==
    (DispatchDone /\ ~mutated /\ ev.target.tagName \notin TextEntryTags) =>
        \A i \in DOMAIN macros :
            (\E n \in Logged("action") :
                log[n].key = macros[i].key /\ log[n].fn = macros[i].value.action)
            <=> (i \in ShouldFire(ev))

\* A record fired for an event that writes its key in the other case, with
\* ctrl held.
C1_Witness ==
    /\ DispatchDone
    /\ ev.target.tagName \notin TextEntryTags
    /\ \E i \in DOMAIN macros :
          /\ Invocations(macros[i].key) = 1
          /\ macros[i].value.keyCombo.key # ev.key
    /\ ev.ctrlKey

\* C2: register with an id that is already registered fails with DuplicateId
\* and changes nothing: the records, their order and fields, the listening flag.
C2_DuplicateRegisterRejected ==
    [][(last'.op = "register" /\ Has(last'.id)) =>
          /\ last'.ret = "DuplicateId"
          /\ macros' = macros
          /\ isListening' = isListening
          /\ docListeners' = docListeners]_vars

\* A duplicate registration was refused while the existing record was disabled.
C2_Witness ==
    /\ last.op = "register"
    /\ last.ret = "DuplicateId"
    /\ Has(last.id)
    /\ ~Get(last.id).enabled

\* C3: an action that throws never makes handleKeyPress throw; every other
\* record that matches and is enabled is still invoked once for that event;
\* and the handler stays attached for later events.
C3_ThrowingActionIsContained ==
    /\ last.op = "handleKeyPress" => last.ret \in {"void", "running"}
    /\ (DispatchDone /\ ~mutated /\ Logged("console.error") # {}) =>
          /\ \A i \in ShouldFire(ev) : Invocations(macros[i].key) = 1
          /\ listenerFn \in Range(docListeners)

\* The first of two matching records threw, and the second still ran.
C3_Witness ==
    /\ DispatchDone
    /\ Len(macros) = 2
    /\ \E n \in Logged("console.error"), m \in Logged("action") :
          /\ n < m
          /\ log[n].id = macros[1].key
          /\ log[m].key = macros[2].key

\* C4: an event whose target is an input, textarea or select element, in any
\* case, invokes no action and is not suppressed.
C4_TextEntryEventsIgnored ==
    (last.op = "handleKeyPress" /\ ev.target.tagName \in TextEntryTags) => log = <<>>

\* An event from an INPUT element was ignored although an enabled record matches it.
C4_Witness ==
    /\ DispatchDone
    /\ ev.target.tagName = "INPUT"
    /\ ShouldFire(ev) # {}
    /\ log = <<>>

\* C5: the listening flag is true exactly when this registry's handler is
\* attached once; it is never attached twice.
C5_ListeningIffAttachedOnce ==
    /\ isListening <=> Attached = 1
    /\ Attached <= 1

\* stop() has detached the handler of a registry that holds records.
C5_Witness ==
    /\ last.op = "stop"
    /\ last.host = "removeEventListener"
    /\ ~isListening
    /\ Attached = 0
    /\ macros # <<>>

\* C6: start() while listening and stop() while not listening call neither
\* addEventListener nor removeEventListener, change no state and return normally.
C6_RepeatedStartStopAreNoOps ==
    [][((last'.op = "start" /\ isListening) \/ (last'.op = "stop" /\ ~isListening)) =>
          /\ last'.host = "none"
          /\ last'.ret = "void"
          /\ docListeners' = docListeners
          /\ isListening' = isListening
          /\ macros' = macros]_vars

\* start() was called while already listening.
C6_Witness ==
    /\ last.op = "start"
    /\ last.host = "none"
    /\ isListening
    /\ macros # <<>>

\* C7: unregister, enable, disable, toggle and update with an id that is not
\* registered return false and change no record, nor the order, nor listening.
C7_MissingIdReturnsFalse ==
    [][(last'.op \in {"unregister", "enable", "disable", "toggle", "update"}
          /\ ~Has(last'.id)) =>
          /\ last'.ret = "false"
          /\ macros' = macros
          /\ isListening' = isListening
          /\ docListeners' = docListeners]_vars

\* update() of a missing id returned false in a registry that holds another record.
C7_Witness ==
    /\ last.op = "update"
    /\ last.ret = "false"
    /\ ~Has(last.id)
    /\ macros # <<>>

\* C8: when several enabled records match one event and no action has called
\* a method that writes the records, each of their actions is invoked
\* exactly once, and no other record's action is.
C8_AllMatchingFireOnce ==
    (DispatchDone /\ ~mutated /\ ev.target.tagName \notin TextEntryTags
        /\ Cardinality(ShouldFire(ev)) >= 2) =>
        /\ \A i \in ShouldFire(ev) : Invocations(macros[i].key) = 1
        /\ Cardinality(Logged("action")) = Cardinality(ShouldFire(ev))

\* Two records both fired for one event, the second after the first one threw.
C8_Witness ==
    /\ DispatchDone
    /\ ~mutated
    /\ Len(macros) = 2
    /\ Logged("console.error") # {}
    /\ Invocations(macros[1].key) = 1
    /\ Invocations(macros[2].key) = 1

\* C9: nothing the caller does to the array getAll() returned, or to the
\* records in it, changes the records the registry holds.
C9_GetAllIsNoLiveView ==
    [][(last'.op \in {"callerWrite", "callerShift"}) => macros' = macros]_vars

\* C10: the record stored under an id carries that id, after any sequence of
\* operations.
C10_IdIsImmutable ==
    \A i \in DOMAIN macros : macros[i].value.id = macros[i].key

-----------------------------------------------------------------------------
(* C11..C20 *)

\* C11: two consecutive toggle(id) calls on a registered id both return true
\* and leave every record, the enabled flag of id included, as it was before
\* the first of them.
C11_ToggleTwiceRestores ==
    [][(before # NoBefore /\ last.op = "toggle" /\ last'.op = "toggle"
          /\ last'.id = last.id /\ last.id \in Keys(before.macros)) =>
          /\ last.ret = "true"
          /\ last'.ret = "true"
          /\ macros' = before.macros
          /\ isListening' = isListening]_vars

\* A record that was disabled is disabled again after the second toggle,
\* beside another record.
C11_Witness ==
    /\ last.op = "toggle"
    /\ last.ret = "true"
    /\ before # NoBefore
    /\ before.twice
    /\ ~Get(last.id).enabled
    /\ Len(macros) = 2

\* C12: clear() leaves no record, so that getAll() is empty; it returns
\* normally, also on an empty registry, and changes neither the listening flag
\* nor the attached handler.
C12_ClearEmptiesOnly ==
    [][(last'.op = "clear") =>
          /\ macros' = <<>>
          /\ Values' = <<>>
          /\ last'.ret = "void"
          /\ isListening' = isListening
          /\ docListeners' = docListeners]_vars

\* clear() was called on a listening registry, which still listens.
C12_Witness ==
    /\ last.op = "clear"
    /\ isListening
    /\ Attached = 1
    /\ macros = <<>>

\* C13: register with an id that is not registered returns the id and appends
\* exactly one record, enabled and carrying that id; the records already there
\* and the listening state are unchanged.
C13_RegisterAddsEnabledRecord ==
    [][(last'.op = "register" /\ ~Has(last'.id)) =>
          /\ last'.ret = last'.id
          /\ Len(macros') = Len(macros) + 1
          /\ SubSeq(macros', 1, Len(macros)) = macros
          /\ macros'[Len(macros')].key = last'.id
          /\ macros'[Len(macros')].value.id = last'.id
          /\ macros'[Len(macros')].value.enabled
          /\ isListening' = isListening
          /\ docListeners' = docListeners]_vars

\* A record was registered, enabled, behind a disabled one, while listening.
C13_Witness ==
    /\ last.op = "register"
    /\ last.ret = last.id
    /\ isListening
    /\ Len(macros) = 2
    /\ macros[2].key = last.id
    /\ macros[2].value.enabled
    /\ ~macros[1].value.enabled

\* C14: unregister(id) returns true exactly when a record was stored under id;
\* afterwards no record is stored under id and every other record is as it was,
\* in place; and an action that a dispatch invokes belongs to a record that is
\* registered at that moment, never to one that was removed.
C14_UnregisterRemovesForGood ==
    [][/\ (last'.op = "unregister") =>
             /\ last'.ret = (IF Has(last'.id) THEN "true" ELSE "false")
             /\ last'.id \notin Keys(macros')
             /\ macros' = SelectSeq(macros, LAMBDA e : e.key # last'.id)
             /\ isListening' = isListening
       /\ (pc' = "inAction" /\ (pc = "idle" \/ log' # log)) =>
             /\ log'[Len(log')].call = "action"
             /\ log'[Len(log')].key \in Keys(macros')
             /\ log'[Len(log')].fn = Get(log'[Len(log')].key).action]_vars

\* After unregister removed an enabled record, an event with that record's
\* chord was dispatched and the record's action was not invoked, while the
\* record that stayed was.
C14_Witness ==
    /\ DispatchDone
    /\ before # NoBefore
    /\ before.op = "unregister"
    /\ Len(before.macros) = 2
    /\ Len(macros) = 1
    /\ \E i \in DOMAIN before.macros :
          /\ before.macros[i].key = before.id
          /\ before.id \notin Keys(macros)
          /\ Fires(before.macros[i].value, ev)
          /\ Invocations(before.macros[i].key) = 0
    /\ Invocations(macros[1].key) = 1

\* C15: enable(id) and disable(id) on a registered id return true and leave the
\* record's flag true, respectively false, whatever it was, with nothing else
\* changed; and an action that a dispatch invokes belongs to a record that is
\* enabled at that moment, so a disabled record's action is not invoked.
C15_EnableDisableSetTheFlag ==
    [][/\ (last'.op \in {"enable", "disable"} /\ Has(last'.id)) =>
             /\ last'.ret = "true"
             /\ macros' = SetValue(macros, IndexOf(macros, last'.id),
                                   [Get(last'.id) EXCEPT !.enabled = (last'.op = "enable")])
             /\ isListening' = isListening
       /\ (pc' = "inAction" /\ (pc = "idle" \/ log' # log)) =>
             \E i \in DOMAIN macros' :
                /\ macros'[i].key = log'[Len(log')].key
                /\ macros'[i].value.enabled]_vars

\* disable(id) was called twice in a row on a registered record; then an event
\* with that record's chord was dispatched and invoked the other record only.
C15_Witness ==
    /\ DispatchDone
    /\ before # NoBefore
    /\ before.op = "disable"
    /\ before.twice
    /\ Len(macros) = 2
    /\ ~Get(before.id).enabled
    /\ matchesCombo(ev, Get(before.id).keyCombo)
    /\ Invocations(before.id) = 0
    /\ Cardinality(Logged("action")) = 1

\* C16: while the registry is not listening (before the first start(), and
\* after a stop() until the next start()) its handler is not attached: a
\* keydown event the host raises then reaches no code of the registry, so no
\* action is invoked and nothing is suppressed.
C16_NoDispatchWhileNotListening ==
    [][(~isListening /\ pc = "idle" /\ last'.op \in {"handleKeyPress", "keydown"}) =>
          /\ last'.op = "keydown"
          /\ listenerFn \notin Range(docListeners)
          /\ log' = <<>>
          /\ macros' = macros]_vars

\* stop() ended listening; the next thing was a keydown event, outside any
\* text-entry element, with the chord of an enabled record: nothing was called.
C16_Witness ==
    /\ last.op = "keydown"
    /\ before # NoBefore
    /\ before.op = "stop"
    /\ before.listening
    /\ ~isListening
    /\ ~IsTextEntry(ev)
    /\ \E i \in DOMAIN macros : Fires(macros[i].value, ev)
    /\ log = <<>>

\* C17: when an action has called stop() during a dispatch (and no action of
\* that dispatch has written the records), the dispatch still invokes every
\* enabled record whose chord matches the event, once, and no other; the handler
\* is detached, so later events are not dispatched.
C17_StopInsideActionFinishesDispatch ==
    (DispatchDone /\ ~isListening /\ ~mutated) =>
        /\ \A i \in DOMAIN macros :
              Invocations(macros[i].key) = (IF i \in ShouldFire(ev) THEN 1 ELSE 0)
        /\ Attached = 0

\* The second matching record's action has just been entered although the
\* first one's action stopped the registry.
C17_Witness ==
    /\ pc = "inAction"
    /\ last.op = "handleKeyPress"
    /\ calls = 0
    /\ ~isListening
    /\ ~mutated
    /\ Attached = 0
    /\ Cardinality(Logged("action")) = 2
    /\ Invocations(macros[2].key) = 1

\* C18: in the log of one event, preventDefault is called as many times as
\* actions are called when the preventDefault option is true and never
\* otherwise, and likewise stopPropagation with the stopPropagation option; an
\* event on a text-entry element, or one that no enabled record's chord
\* matches, is suppressed in neither way.
C18_SuppressionOncePerFiredRecord ==
    LET fired == Cardinality(Logged("action")) IN
    /\ Cardinality(Logged("preventDefault")) =
          (IF options.preventDefault = "true" THEN fired ELSE 0)
    /\ Cardinality(Logged("stopPropagation")) =
          (IF options.stopPropagation = "true" THEN fired ELSE 0)
    /\ (DispatchDone /\ (ev.target.tagName \in TextEntryTags \/ ShouldFire(ev) = {})) =>
          Logged("preventDefault") \cup Logged("stopPropagation") = {}

\* Two records fired for one event in a registry built with preventDefault
\* false and stopPropagation true.
C18_Witness ==
    /\ DispatchDone
    /\ options.preventDefault = "false"
    /\ options.stopPropagation = "true"
    /\ Cardinality(Logged("action")) = 2
    /\ Cardinality(Logged("stopPropagation")) = 2
    /\ Logged("preventDefault") = {}

\* C19: every call of an action is preceded, with no other action call in
\* between, by the preventDefault call when that option is true and by the
\* stopPropagation call when that option is true; so the suppression has
\* happened when the action runs, whether it then throws or not.
C19_SuppressionPrecedesAction ==
    \A n \in Logged("action") :
        \A c \in {"preventDefault", "stopPropagation"} :
            options[c] = "true" =>
                \E m \in Logged(c) :
                    /\ m < n
                    /\ \A k \in Logged("action") : ~(m < k /\ k < n)

\* An action threw after both suppression calls had been made for its record.
C19_Witness ==
    /\ DispatchDone
    /\ \E n \in Logged("console.error") :
          /\ n > 3
          /\ log[n - 1].call = "action"
          /\ log[n - 2].call = "stopPropagation"
          /\ log[n - 3].call = "preventDefault"

\* C20: the order in which the records are iterated is the order of
\* registration: a successful register puts its id last, unregister takes its
\* id out, clear empties, and no other step (update, enable, disable, toggle
\* among them) changes the order; getAll() returns the records in that order,
\* and a dispatch invokes each action after those of all earlier records.
C20_RegistrationOrder ==
    [][/\ CASE last'.op = "register" /\ last'.ret = last'.id ->
                  KeyOrder' = Append(KeyOrder, last'.id)
            [] last'.op = "unregister" ->
                  KeyOrder' = SelectSeq(KeyOrder, LAMBDA k : k # last'.id)
            [] last'.op = "clear" -> KeyOrder' = <<>>
            [] OTHER -> KeyOrder' = KeyOrder
       /\ (last'.op = "getAll") =>
             /\ Len(snap') = Len(KeyOrder)
             /\ \A i \in DOMAIN snap' : snap'[i].live /\ snap'[i].key = KeyOrder[i]
       /\ (pc' = "inAction" /\ (pc = "idle" \/ log' # log)) =>
             \A n \in Logged("action")' :
                n < Len(log') =>
                   IndexOf(macros', log'[n].key) < IndexOf(macros', log'[Len(log')].key)]_vars

\* getAll() once returned save before refresh; save was unregistered and
\* registered again, and a dispatch then invoked refresh before save.
C20_Witness ==
    /\ DispatchDone
    /\ Len(snap) = 2
    /\ ~snap[1].live
    /\ snap[1].rec.id = "save"
    /\ snap[2] = LiveRef("refresh")
    /\ KeyOrder = <<"refresh", "save">>
    /\ Cardinality(Logged("action")) = 2
    /\ \E n \in Logged("action") :
          /\ log[n].key = "refresh"
          /\ \E m \in Logged("action") : m > n /\ log[m].key = "save"

-----------------------------------------------------------------------------
(* C21..C24 *)

\* C21: a call of register, unregister, clear, enable, disable, toggle or
\* update changes nothing of what is seen through an array that getAll()
\* returned earlier: neither its length, nor its members, nor their fields.
C21_SnapshotUnaffectedByLaterCalls ==
    [][(last'.op \in {"register", "unregister", "clear", "enable", "disable",
                      "toggle", "update"}) => SnapView' = SnapView]_vars

\* C22: in the dispatch of one event the action of the record stored under an
\* id is invoked at most once, whatever the actions call on the registry.
C22_EachIdAtMostOncePerEvent ==
    \A k \in Ids : Invocations(k) <= 1

\* C23: whether a record fires is decided from the records as they are when the
\* loop of the dispatch moves on, not as they were when the event arrived: the
\* record whose action is invoked next is registered, enabled and bound to a
\* chord the event matches at that moment, every record the loop passes over
\* on the way is at that moment disabled or bound to another chord, and a
\* record that is unregistered by then is not reached at all.
C23_RecordsReadWhenReached ==
    [][(last'.op = "handleKeyPress" /\ ev'.target.tagName \notin TextEntryTags) =>
          LET firesNow(j) == /\ macros[j].value.enabled
                             /\ ChordMatches(ev', macros[j].value.keyCombo)
          IN  /\ macros' = macros
              /\ (pc' = "inAction") =>
                    /\ iter' \in DOMAIN macros
                    /\ iter' > iter
                    /\ firesNow(iter')
                    /\ log'[Len(log')] = [call |-> "action", key |-> macros[iter'].key,
                                          fn |-> macros[iter'].value.action]
                    /\ \A j \in DOMAIN macros : (iter < j /\ j < iter') => ~firesNow(j)
              /\ (pc' = "idle") =>
                    /\ \A j \in DOMAIN macros : iter < j => ~firesNow(j)
                    /\ Cardinality(Logged("action")') =
                          (IF pc = "idle" THEN 0 ELSE Cardinality(Logged("action")))]_vars

\* The first action of a dispatch has, as its first call, toggled off the
\* second record, which was enabled when the event arrived and whose chord
\* the event matches.
C23_Witness ==
    /\ pc = "inAction"
    /\ calls = 1
    /\ Cardinality(Logged("action")) = 1
    /\ iter = 1
    /\ Len(macros) = 2
    /\ last.op = "toggle"
    /\ last.ret = "true"
    /\ last.id = macros[2].key
    /\ ~macros[2].value.enabled
    /\ ChordMatches(ev, macros[2].value.keyCombo)

\* C24: in every state, after any operations, each option behaves as the
\* value the constructor was given for it, and as the default (preventDefault
\* true, stopPropagation false, debug false) when the field was omitted or
\* given as undefined.
C24_OmittedOrUndefinedMeansDefault ==
    \A f \in DOMAIN DefaultOptions :
        OptionSet(f) = (IF f \in DOMAIN ctorOptions /\ ctorOptions[f] # Undefined
                        THEN ctorOptions[f] = "true"
                        ELSE DefaultOptions[f] = "true")

====
